---------------------------- MODULE Spec2Model ----------------------------
(***************************************************************************)
(* Model of image_comparison.py: the ImageCompare class, its constructor   *)
(* and its compare() pipeline (blur -> statistics -> diff artifact ->      *)
(* report), together with the part of the imaging library the pipeline     *)
(* calls into.                                                             *)
(*                                                                         *)
(* Representation.                                                         *)
(*   - A pixel value is an integer in hundredths (100 is 1.0).             *)
(*   - An image buffer is one row of pixels, each pixel a tuple of channel *)
(*     values (R, G, B and possibly A).  An uninitialised ImageBuf, which  *)
(*     is what the library leaves behind when a file cannot be decoded, is *)
(*     the empty sequence.                                                 *)
(*   - A file path is a sequence of tokens, "/" and "." being tokens of    *)
(*     their own, so that basename, dirname and splitext do real work.     *)
(*   - Kernel weights are integers in thousandths; the normalisation       *)
(*     (division by the sum of the weights) happens in convolve.           *)
(***************************************************************************)
EXTENDS Integers, Sequences, FiniteSets

VARIABLES
    image_a_location,   \* self._image_a_location
    image_b_location,   \* self._image_b_location
    file_ext,           \* self._file_ext
    image_a_buffer,     \* self.image_a_buffer
    image_b_buffer,     \* self.image_b_buffer
    fail_threshold,     \* self.fail_threshold
    warn_threshold,     \* self.warn_threshold
    compare_results,    \* self._compare_results
    degenerate_weight,  \* weight the library's gaussian gives a zero-width kernel
    disk,               \* paths of the files written so far
    calls,              \* number of compare() invocations made
    args,               \* arguments of the most recent compare()
    outcome,            \* how the most recent compare() ended
    error,              \* message of the ImageDifferenceError it raised
    printed,            \* message it printed
    writes,             \* the write() calls it issued, in order
    history             \* blur size and outcome of every compare() so far, in order

vars == <<image_a_location, image_b_location, file_ext, image_a_buffer,
          image_b_buffer, fail_threshold, warn_threshold, compare_results,
          degenerate_weight, disk, calls, args, outcome, error, printed,
          writes, history>>

\* Number of compare() invocations explored on one instance.
MaxCalls == 2

-----------------------------------------------------------------------------
(* Small arithmetic helpers *)

Abs(x) == IF x < 0 THEN -x ELSE x

Min2(x, y) == IF x < y THEN x ELSE y

Max2(x, y) == IF x > y THEN x ELSE y

SetMin(S) == CHOOSE m \in S : \A x \in S : m <= x

SetMax(S) == CHOOSE m \in S : \A x \in S : m >= x

RECURSIVE SumSeq(_)
SumSeq(s) == IF s = <<>> THEN 0 ELSE Head(s) + SumSeq(Tail(s))

\* the sequence a function on 1..n is, enumerated once
AsSeq(f) == SubSeq(f, 1, Len(f))

\* floor of the square root
ISqrt(n) == CHOOSE r \in 0..100 : r * r <= n /\ (r + 1) * (r + 1) > n

-----------------------------------------------------------------------------
(* The files given to the constructor, and what the library decodes from   *)
(* them.                                                                   *)

PathA == <<"renders", "/", "a", ".", "png">>

PathB == <<"renders", "/", "b", ".", "png">>

PathC == <<"c", ".", "exr">>

PathRef == <<"renders", "/", "ref", ".", "v2", ".", "png">>

PathGone == <<"renders", "/", "gone", ".", "png">>

Paths == {PathA, PathB, PathC, PathRef, PathGone}

\* a flat RGB row
FlatImage == << <<50, 40, 30>>, <<50, 40, 30>>, <<50, 40, 30>> >>

\* the flat row with one isolated bright pixel (sampling noise)
NoisyImage == << <<50, 40, 30>>, <<100, 100, 100>>, <<50, 40, 30>> >>

\* the flat row with a region slightly brighter in one channel, and an alpha
\* channel
WarmAlphaImage == << <<50, 40, 30, 100>>, <<62, 40, 30, 0>>, <<62, 40, 30, 60>> >>

\* a structural edge
EdgeImage == << <<0, 0, 0>>, <<100, 100, 100>>, <<100, 100, 100>> >>

\* the file that cannot be decoded
Undecodable(path) == path = PathGone

FileContent(path) ==
    CASE path = PathA    -> FlatImage
      [] path = PathB    -> NoisyImage
      [] path = PathC    -> WarmAlphaImage
      [] path = PathRef  -> EdgeImage
      [] OTHER           -> <<>>

\* ImageBuf(path): no exception on a file that cannot be read, the buffer is
\* left uninitialised.
ImageBuf(path) == IF Undecodable(path) THEN <<>> ELSE FileContent(path)

\* ImageBufAlgo.channels(dst, src, ('R','G','B')): keeps the three colour
\* channels; on an uninitialised source it returns False (ignored by the
\* caller) and dst stays uninitialised.
channels(src) == AsSeq([i \in 1..Len(src) |-> SubSeq(src[i], 1, 3)])

-----------------------------------------------------------------------------
(* os.path on token sequences *)

SlashPositions(p) == {i \in 1..Len(p) : p[i] = "/"}

\* os.path.basename
basename(p) ==
    IF SlashPositions(p) = {} THEN p
    ELSE SubSeq(p, SetMax(SlashPositions(p)) + 1, Len(p))

\* os.path.dirname
dirname(p) ==
    IF SlashPositions(p) = {} THEN <<>>
    ELSE SubSeq(p, 1, SetMax(SlashPositions(p)) - 1)

\* os.path.splitext(p)[-1]: from the last dot of the last component on,
\* empty when there is none or when it is the component's first character
splitext_ext(p) ==
    LET b    == basename(p)
        dots == {i \in 2..Len(b) : b[i] = "."}
    IN  IF dots = {} THEN <<>> ELSE SubSeq(b, SetMax(dots), Len(b))

-----------------------------------------------------------------------------
(* The imaging library's filters, on one-row images *)

\* ImageBufAlgo.erode(dst, src, width, height): per channel, the minimum over
\* the window centred on the pixel, taken over the pixels that exist
erode(src, size) ==
    LET h == size \div 2
        n == Len(src)
    IN  AsSeq([i \in 1..n |->
            AsSeq([c \in 1..Len(src[i]) |->
                SetMin({src[j][c] : j \in Max2(1, i - h)..Min2(n, i + h)})])])

\* ImageBufAlgo.dilate(dst, src, width, height): the maximum over the window
dilate(src, size) ==
    LET h == size \div 2
        n == Len(src)
    IN  AsSeq([i \in 1..n |->
            AsSeq([c \in 1..Len(src[i]) |->
                SetMax({src[j][c] : j \in Max2(1, i - h)..Min2(n, i + h)})])])

\* ImageCompare._open(source, size=3): morphological opening
_open(source) == dilate(erode(source, 3), 3)

\* The gaussian filter sampled at offset x for a kernel of the given size:
\* exp(-2 (2x/size)^2) inside the support |2x| < size, 0 outside, in
\* thousandths.  For the sizes explored (at most 3) the only off-centre sample
\* inside the support is x = +-1 at size 3, exp(-8/9) = 0.411.  A size of 0
\* makes the filter divide by zero; what weight comes out is the library's
\* business (degenerate_weight).
GaussWeight(size, x) ==
    IF size = 0 THEN degenerate_weight
    ELSE IF 2 * Abs(x) >= size THEN 0
    ELSE IF x = 0 THEN 1000
    ELSE 411

\* ImageBufAlgo.make_kernel(kernel, "gaussian", size, size): the kernel is
\* max(1, ceil(size)) wide, rounded up to odd.  On a one-row image with
\* clamped borders the rows of the square kernel act alike, so the kernel is
\* kept as its row of weights.
make_kernel(size) ==
    LET w0 == Max2(1, size)
        w  == IF w0 % 2 = 0 THEN w0 + 1 ELSE w0
    IN  AsSeq([k \in 1..w |-> GaussWeight(size, k - 1 - (w \div 2))])

\* ImageBufAlgo.convolve(dst, src, kernel): normalised weighted sum over the
\* window, source coordinates clamped to the image; a kernel whose weights
\* sum to zero leaves no image content
convolve(src, kernel) ==
    LET n     == Len(src)
        h     == Len(kernel) \div 2
        total == SumSeq(kernel)
        at(i) == src[Max2(1, Min2(n, i))]
    IN  AsSeq([i \in 1..n |->
            AsSeq([c \in 1..Len(src[i]) |->
                IF total = 0 THEN 0
                ELSE SumSeq([k \in 1..Len(kernel) |->
                                kernel[k] * at(i + k - 1 - h)[c]]) \div total])])

\* ImageCompare._blur(source, size): opening, then gaussian convolution
_blur(source, size) == convolve(_open(source), make_kernel(size))

\* ImageCompare.blur_images(size), mutated: the baseline is left as it is
blur_images_baseline_skipped(a, b, size) == [a |-> _blur(a, size), b |-> b]

\* ImageCompare.blur_images(size), mutated: the candidate is left as it is
blur_images_candidate_skipped(a, b, size) == [a |-> a, b |-> _blur(b, size)]

\* ImageCompare.blur_images(size): both buffers are replaced by their blur
blur_images(a, b, size) == [a |-> _blur(a, size), b |-> _blur(b, size)]

-----------------------------------------------------------------------------
(* Statistics *)

\* CompareResults(): a fresh statistics object
CompareResults ==
    [nfail |-> 0, nwarn |-> 0, meanerror |-> 0, rms_error |-> 0,
     PSNR |-> [finite |-> TRUE, db |-> 0]]

\* 20 log10(1 / rms), rms in hundredths, rounded down to a multiple of 20 dB;
\* infinite when the rms error is zero
PSNR(rms) ==
    IF rms = 0 THEN [finite |-> FALSE, db |-> 0]
    ELSE [finite |-> TRUE,
          db |-> IF rms <= 1 THEN 40 ELSE IF rms <= 10 THEN 20 ELSE 0]

\* ImageBufAlgo.compare(A, B, failthresh, warnthresh, result): a pixel counts
\* as a warning (a failure) when one of its channels differs by more than
\* warnthresh (failthresh).  With an uninitialised buffer the call fails
\* (return value ignored by the caller) and the statistics are those of a
\* fresh CompareResults.
IBA_compare(A, B, failthresh, warnthresh) ==
    IF A = <<>> \/ B = <<>> THEN CompareResults
    ELSE
    LET n      == Len(A)
        nch    == Len(A[1])
        d(i)   == AsSeq([c \in 1..nch |-> Abs(A[i][c] - B[i][c])])
        over(i, t) == \E c \in 1..nch : d(i)[c] > t
        total  == SumSeq([i \in 1..n |-> SumSeq(d(i))])
        totsq  == SumSeq([i \in 1..n |->
                            SumSeq([c \in 1..nch |-> d(i)[c] * d(i)[c]])])
        rms    == ISqrt(totsq \div (n * nch))
    IN  [nfail     |-> Cardinality({i \in 1..n : over(i, failthresh)}),
         nwarn     |-> Cardinality({i \in 1..n : over(i, warnthresh)}),
         meanerror |-> total \div (n * nch),
         rms_error |-> rms,
         PSNR      |-> PSNR(rms)]

\* report_msg.format(...)
report_msg_format(r) ==
    <<"Failures:", r.nfail, "Warnings:", r.nwarn, "Average error:",
      r.meanerror, "RMS error:", r.rms_error, "PSNR:", r.PSNR>>

-----------------------------------------------------------------------------
(* ImageCompare *)

\* self.fail_threshold = 0.1, in hundredths
fail_threshold_default == 10

\* self.warn_threshold = 0.01, in hundredths
warn_threshold_default == 1

\* the thresholds handed to ImageBufAlgo.compare, mutated: the two swapped
compare_thresholds_swapped(fail, warn) == [failthresh |-> warn, warnthresh |-> fail]

\* the thresholds handed to ImageBufAlgo.compare: self.fail_threshold, then
\* self.warn_threshold
compare_thresholds(fail, warn) == [failthresh |-> fail, warnthresh |-> warn]

\* the statistics object ImageBufAlgo.compare fills, mutated: a local object
\* is filled and self._compare_results keeps its old content
store_results_in_local(previous, computed) == previous

\* the statistics object ImageBufAlgo.compare fills is self._compare_results
store_results(previous, computed) == computed

\* `if self._compare_results.nfail > 0`, mutated: warnings count as failures
has_failures_or_warnings(results) == results.nfail > 0 \/ results.nwarn > 0

\* `if self._compare_results.nfail > 0`
has_failures(results) == results.nfail > 0

\* `if raise_exception`, mutated: the flag is ignored
raises_always(raise_exception) == TRUE

\* `if raise_exception`
raises(raise_exception) == raise_exception

\* the directory written to, mutated: no fall-back to the candidate's directory
diff_location_no_default(diff_image_location, a_location) == diff_image_location

\* `if not diff_image_location: diff_image_location = os.path.dirname(...)`;
\* the empty sequence stands for None and for the empty string alike
diff_location(diff_image_location, a_location) ==
    IF diff_image_location = <<>> THEN dirname(a_location)
    ELSE diff_image_location

\* '{}/{}-{}_diff{}'.format(location, basename(a), basename(b), ext)
diff_file_name(location, a_location, b_location, ext) ==
    location \o <<"/">> \o basename(a_location) \o <<"-">>
        \o basename(b_location) \o <<"_diff">> \o ext

\* '{}/{}_debug{}'.format(location, tag, ext)
debug_file_name(location, tag, ext) ==
    location \o <<"/">> \o <<tag>> \o <<"_debug">> \o ext

\* the directories a caller passes as diff_image_location; <<>> is "not given"
DirOut == <<"out">>

DirReadOnly == <<"readonly">>

DiffLocations == {<<>>, DirOut, DirReadOnly}

\* ImageBuf.write(path) returns False, without raising, when the file cannot
\* be created
Writable(location) == location # DirReadOnly

\* blur sizes a caller passes
BlurSizes == {0, 3}

\* weights a zero-width gaussian kernel can come out with: the centre sample
\* as usual, or zero
DegenerateWeights == {0, 1000}

NoArgs == [diff_image_location |-> <<>>, blur |-> 0, raise_exception |-> FALSE]

\* ImageCompare.__init__(image_a, image_b)
Init ==
    /\ image_a_location \in Paths
    /\ image_b_location \in Paths
    /\ fail_threshold = fail_threshold_default
    /\ warn_threshold = warn_threshold_default
    /\ image_a_buffer = channels(ImageBuf(image_a_location))
    /\ image_b_buffer = channels(ImageBuf(image_b_location))
    /\ file_ext = splitext_ext(image_a_location)
    /\ compare_results = CompareResults
    /\ degenerate_weight \in DegenerateWeights
    /\ disk = {}
    /\ calls = 0
    /\ args = NoArgs
    /\ outcome = "none"
    /\ error = <<>>
    /\ printed = <<>>
    /\ writes = <<>>
    /\ history = <<>>

\* ImageCompare.compare(diff_image_location, blur, raise_exception).  The
\* difference buffer and its colour-mapped, amplified blend onto the candidate
\* are locals whose only use is to be written out; a write is recorded with
\* the buffer it writes, not with that buffer's pixels.
compare(diff_image_location, blur, raise_exception) ==
    LET blurred  == blur_images(image_a_buffer, image_b_buffer, blur)
        passed   == compare_thresholds(fail_threshold, warn_threshold)
        results  == store_results(compare_results,
                        IBA_compare(blurred.a, blurred.b,
                                    passed.failthresh, passed.warnthresh))
        msg      == report_msg_format(results)
        location == diff_location(diff_image_location, image_a_location)
        ok       == Writable(location)
        issued   ==
            << [path   |-> diff_file_name(location, image_a_location,
                                          image_b_location, file_ext),
                buffer |-> "remap_buffer", ok |-> ok],
               [path   |-> debug_file_name(location, "1_a", file_ext),
                buffer |-> "image_a_buffer", ok |-> ok],
               [path   |-> debug_file_name(location, "1_b", file_ext),
                buffer |-> "image_b_buffer", ok |-> ok] >>
    IN  /\ calls < MaxCalls
        /\ calls' = calls + 1
        /\ args' = [diff_image_location |-> diff_image_location,
                    blur |-> blur, raise_exception |-> raise_exception]
        /\ image_a_buffer' = blurred.a
        /\ image_b_buffer' = blurred.b
        /\ compare_results' = results
        /\ IF has_failures(results)
           THEN /\ writes' = issued
                /\ disk' = disk \cup {issued[i].path : i \in {j \in 1..3 : issued[j].ok}}
                /\ IF raises(raise_exception)
                   THEN outcome' = "raised" /\ error' = msg /\ printed' = <<>>
                   ELSE outcome' = "returned" /\ error' = <<>> /\ printed' = msg
           ELSE /\ writes' = <<>>
                /\ disk' = disk
                /\ outcome' = "returned"
                /\ error' = <<>>
                /\ printed' = <<>>
        /\ history' = Append(history, [blur |-> blur, outcome |-> outcome'])
        /\ UNCHANGED <<image_a_location, image_b_location, file_ext,
                       fail_threshold, warn_threshold, degenerate_weight>>

Next ==
    \E d \in DiffLocations, blur \in BlurSizes, r \in BOOLEAN : compare(d, blur, r)

Spec == Init /\ [][Next]_vars

-----------------------------------------------------------------------------
(* Properties *)

\* compare() has been invoked at least once
Invoked == calls > 0

nfail == compare_results.nfail

nwarn == compare_results.nwarn

\* the write() calls of the most recent invocation that write the diff artifact
DiffWrites == {i \in 1..Len(writes) : writes[i].buffer = "remap_buffer"}

\* what the constructor loaded: the decoded file reduced to R, G, B
LoadedA == channels(ImageBuf(image_a_location))

LoadedB == channels(ImageBuf(image_b_location))

\* an image after one _blur per recorded invocation
RECURSIVE BlurredThrough(_, _)
BlurredThrough(img, h) ==
    IF h = <<>> THEN img
    ELSE BlurredThrough(_blur(img, Head(h).blur), Tail(h))

\* C1: in every compare invocation the diff artifact is written (its write is
\* issued) if and only if the failure count of that invocation is greater
\* than zero; with a failure count of zero the invocation writes no file.
C1_DiffWrittenIffFailures ==
    Invoked =>
        /\ (DiffWrites # {}) <=> (nfail > 0)
        /\ (nfail = 0) => (writes = <<>>)

C1_Witness ==
    /\ Invoked
    /\ nfail > 0
    /\ DiffWrites # {}
    /\ args.raise_exception = FALSE

\* C2: compare ends by raising ImageDifferenceError if and only if the
\* failure count is greater than zero and the raise flag is true; the error's
\* message is the report formatted from that invocation's statistics; in
\* every other case compare returns normally.
C2_RaisesIffFailuresAndFlag ==
    Invoked =>
        /\ (outcome = "raised") <=> (nfail > 0 /\ args.raise_exception)
        /\ (outcome = "raised") =>
              error = <<"Failures:", nfail, "Warnings:", nwarn,
                        "Average error:", compare_results.meanerror,
                        "RMS error:", compare_results.rms_error,
                        "PSNR:", compare_results.PSNR>>
        /\ (outcome # "raised") => (outcome = "returned" /\ error = <<>>)

C2_Witness ==
    /\ outcome = "raised"
    /\ nfail > 0
    /\ nwarn > 0
    /\ error # <<>>

\* the directory the artifact goes to: the argument when one is given, the
\* candidate's directory otherwise
ArtifactDir ==
    IF args.diff_image_location # <<>> THEN args.diff_image_location
    ELSE dirname(image_a_location)

\* a file name without its extension
Stem(p) == SubSeq(basename(p), 1, Len(basename(p)) - Len(splitext_ext(p)))

\* C3 as stated: with failures present the diff artifact is written to
\* {dir}/{basename}_diff{ext}, basename taken from the candidate's path only.
C3_DiffPathFromCandidateOnly ==
    (Invoked /\ nfail > 0) =>
        \A i \in DiffWrites :
            writes[i].path = ArtifactDir \o <<"/">> \o Stem(image_a_location)
                                \o <<"_diff">> \o splitext_ext(image_a_location)

\* C3 amended: with failures present the diff artifact is written to
\* {dir}/{candidate file name}-{baseline file name}_diff{ext}, both file names
\* with their extensions, ext the candidate's extension, dir the argument when
\* one is given and the candidate's directory otherwise.
C3_DiffPathFromBothNames ==
    (Invoked /\ nfail > 0) =>
        /\ DiffWrites # {}
        /\ \A i \in DiffWrites :
              writes[i].path = ArtifactDir \o <<"/">> \o basename(image_a_location)
                                  \o <<"-">> \o basename(image_b_location)
                                  \o <<"_diff">> \o splitext_ext(image_a_location)

C3_Witness ==
    /\ Invoked
    /\ nfail > 0
    /\ args.diff_image_location = <<>>
    /\ image_a_location = PathRef
    /\ image_b_location = PathA
    /\ writes[1].path = <<"renders", "/", "ref", ".", "v2", ".", "png", "-",
                          "a", ".", "png", "_diff", ".", "png">>

\* C4: the only file the comparator ever writes is the diff artifact: a
\* passing invocation writes nothing, a failing one exactly one file.
C4_OnlyDiffArtifactWritten ==
    Invoked =>
        /\ Len(writes) = (IF nfail > 0 THEN 1 ELSE 0)
        /\ \A i \in 1..Len(writes) : writes[i].buffer = "remap_buffer"

\* C5: an I/O fault is fatal: no invocation returns normally, or raises only
\* ImageDifferenceError, on an instance one of whose source files could not be
\* decoded or after a write that failed.
C5_IOFaultIsFatal ==
    (outcome \in {"returned", "raised"}) =>
        /\ ~Undecodable(image_a_location)
        /\ ~Undecodable(image_b_location)
        /\ \A i \in 1..Len(writes) : writes[i].ok

\* C6: compare with blur size 0 leaves both buffers as they were, so that the
\* statistics are those of the unfiltered buffers.  Stated for the library
\* whose zero-width kernel is the identity, the case most favourable to the
\* claim.
C6_BlurZeroIsNoBlur ==
    (/\ Invoked
     /\ \A i \in 1..Len(history) : history[i].blur = 0
     /\ degenerate_weight = 1000) =>
        /\ image_a_buffer = LoadedA
        /\ image_b_buffer = LoadedB
        /\ compare_results =
              IBA_compare(LoadedA, LoadedB, fail_threshold, warn_threshold)

\* C7: after every compare invocation, however it ended, the instance's
\* statistics are the ones computed by that invocation from the buffers it
\* compared.
C7_StatisticsOfLastInvocation ==
    Invoked =>
        compare_results =
            IBA_compare(image_a_buffer, image_b_buffer,
                        fail_threshold, warn_threshold)

C7_Witness ==
    /\ outcome = "returned"
    /\ nfail = 0
    /\ nwarn > 0
    /\ Len(history) = 2
    /\ history[1].outcome = "raised"

\* C8: for identical candidate and baseline images, whatever the blur size
\* and the raise flag, compare finds no failure and no warning, returns
\* normally and writes no file.
C8_IdenticalImagesPass ==
    (Invoked /\ ~Undecodable(image_a_location)
             /\ ImageBuf(image_a_location) = ImageBuf(image_b_location)) =>
        /\ nfail = 0
        /\ nwarn = 0
        /\ outcome = "returned"
        /\ writes = <<>>

C8_Witness ==
    /\ Invoked
    /\ image_a_location = PathRef
    /\ image_b_location = PathRef
    /\ args.blur = 3
    /\ args.raise_exception
    /\ image_a_buffer # LoadedA
    /\ outcome = "returned"

\* C9: after n compare invocations each buffer is the loaded, channel-reduced
\* image filtered n times, once per invocation with that invocation's blur
\* size, whatever the outcome of the earlier invocations, and the statistics
\* are those of the buffers so filtered.
C9_BlurCompounds ==
    LET filtered_a == BlurredThrough(LoadedA, history)
        filtered_b == BlurredThrough(LoadedB, history)
    IN  /\ Len(history) = calls
        /\ image_a_buffer = filtered_a
        /\ image_b_buffer = filtered_b
        /\ Invoked =>
              compare_results =
                  IBA_compare(filtered_a, filtered_b,
                              fail_threshold, warn_threshold)

C9_Witness ==
    /\ calls = 2
    /\ history[1] = [blur |-> 3, outcome |-> "raised"]
    /\ history[2].blur = 3
    /\ image_a_buffer # _blur(LoadedA, 3)
    /\ image_a_buffer = _blur(_blur(LoadedA, 3), 3)

\* C10: the thresholds are 0.1 and 0.01 from construction on, no compare
\* invocation changes them, and every invocation's statistics are computed
\* against these two values.
C10_ThresholdsFixed ==
    /\ fail_threshold = 10
    /\ warn_threshold = 1
    /\ Invoked =>
          compare_results = IBA_compare(image_a_buffer, image_b_buffer, 10, 1)

C10_Witness ==
    /\ calls >= 2
    /\ history[1].outcome = "raised"
    /\ history[2].outcome = "raised"
    /\ nfail > 0
    /\ fail_threshold = 10
    /\ warn_threshold = 1

=============================================================================
